---- MODULE Spec2Model ----
(***************************************************************************)
(* Carrier verification / load assignment service (carrier-sales-poc).     *)
(*                                                                         *)
(* The record store is one lowdb document (db.json) behind a singleton     *)
(* Low instance.  Every service method does `await db.read()`, a           *)
(* synchronous check-and-mutate on the object just read, and               *)
(* `await db.write()` of that whole object.  Node runs the code between    *)
(* two awaits without interruption, so a read-modify-write operation has   *)
(* two observable points: the instant the file is read (the snapshot) and  *)
(* the instant the rewritten document replaces the file.  Other requests   *)
(* can run between the two.                                                *)
(*                                                                         *)
(* Time is counted in hours.  Scores are integers in units of 1/3000000,   *)
(* which keeps every linear segment of the scoring formula exact.          *)
(***************************************************************************)
EXTENDS Integers, Sequences, FiniteSets, TLC

\* file   the document on disk (db.json): loads, carriers, assignments and
\*        the apiKeys collection the key service keeps in the same file
\* now    the wall clock, in hours
\* rq     the requests in flight, one record per slot
\* nops   how many requests have been started
\* acked  the writes that reported success to their caller: the
\*        <<load id, carrier>> of every createAssignment that returned, in
\*        order, and the carrier numbers of every cacheCarrier that returned
\* calc   one direct call of a function of the matching engine or of the
\*        distance calculator: its arguments and, once it has returned, its
\*        result; or one HTTP request on its way through the middleware in
\*        front of a controller (apiKeyAuth, validate)
VARIABLES file, now, rq, nops, acked, calc

vars == <<file, now, rq, nops, acked, calc>>

(* ------------------------------ bounds --------------------------------- *)
NumReq == 2
MaxOps == 3
MaxTime == 24
MaxLoads == 3

Req == 1..NumReq

(* -------------------------- program constants -------------------------- *)
\* storageConfig.cache.carrierTTL: 86400 s = 24 h
carrierTTL == 24
\* the clock advances in steps of this many hours
TickHours == 12
AVERAGE_TRUCK_SPEED_MPH == 55
ScoreUnit == 3000000

(* ------------------------------ helpers -------------------------------- *)
Min(a, b) == IF a <= b THEN a ELSE b
Max(a, b) == IF a >= b THEN a ELSE b

\* JavaScript `x || d` on strings: the empty string (and undefined, which is
\* represented by it) is falsy
OrElse(x, d) == IF x = "" THEN d ELSE x

\* Array.prototype.filter
RECURSIVE FilterSeq(_, _)
FilterSeq(s, keep) ==
    IF s = <<>> THEN <<>>
    ELSE IF Head(s) \in keep THEN <<Head(s)>> \o FilterSeq(Tail(s), keep)
         ELSE FilterSeq(Tail(s), keep)

Range(s) == {s[i] : i \in DOMAIN s}

\* Array.prototype.findIndex on a key; 0 stands for -1 (not found)
FindIndex(s, P(_)) ==
    IF \E i \in DOMAIN s : P(s[i])
    THEN CHOOSE i \in DOMAIN s : P(s[i]) /\ \A j \in 1..(i - 1) : ~P(s[j])
    ELSE 0

(* ------------------- external collaborators (FMCSA) -------------------- *)
MCNumbers == {"100", "200"}

\* /docket-number/{mc}: content[0].carrier
DocketRegistry(mc) ==
    IF mc = "100"
    THEN [dotNumber |-> "44110", legalName |-> "ACME", statusCode |-> "A",
          allowedToOperate |-> "Y", bipdInsuranceOnFile |-> "750",
          bipdRequiredAmount |-> "750"]
    ELSE [dotNumber |-> "55220", legalName |-> "", statusCode |-> "I",
          allowedToOperate |-> "", bipdInsuranceOnFile |-> "",
          bipdRequiredAmount |-> "750"]

\* /{dot}/authority: content (a list, possibly empty)
AuthorityRegistry(dot) ==
    IF dot = "44110"
    THEN << [commonAuthorityStatus |-> "A", contractAuthorityStatus |-> "I",
             authorizedForProperty |-> "Y"] >>
    ELSE << >>

\* /{dot}/operation-classification
ClassificationRegistry(dot) ==
    IF dot = "44110" THEN <<"Authorized For Hire">> ELSE << >>

\* /{dot}/cargo-carried, already translated to cargo type codes
CargoRegistry(dot) ==
    IF dot = "44110" THEN {1} ELSE {}

(* --------------------------- geo / distances --------------------------- *)
Locations == {"Chicago, IL"}

\* location.split(',').map(s => s.trim()) for the location texts in use
LocationParts(location) ==
    CASE location = "Chicago, IL" -> <<"Chicago", "IL">>
      [] location = "Dallas, TX" -> <<"Dallas", "TX">>
      [] location = "Gary, IN" -> <<"Gary", "IN">>
      [] location = "Nowhere, ZZ" -> <<"Nowhere", "ZZ">>
      [] OTHER -> <<location>>

\* parseLocation on the parts of the text: throws "Invalid location format"
\* on fewer than two parts
CityAndState(parts) ==
    IF Len(parts) < 2
    THEN [thrown |-> TRUE, city |-> "", state |-> ""]
    ELSE [thrown |-> FALSE, city |-> parts[1], state |-> parts[2]]

parseLocation(location) == CityAndState(LocationParts(location))

\* the cities the city-timezones database knows
KnownCities == {"Chicago", "Dallas", "Gary"}

\* the body of getCoordinates on the outcome of the parser: the parser runs
\* inside try/catch, the catch logs the error and returns null; `error` is
\* what reaches the caller
CoordinatesOf(p) ==
    IF p.thrown THEN [found |-> FALSE, place |-> "", error |-> ""]
    ELSE IF p.city \notin KnownCities
    THEN [found |-> FALSE, place |-> "", error |-> ""]
    ELSE [found |-> TRUE, place |-> p.city, error |-> ""]

getCoordinates(location) == CoordinatesOf(parseLocation(location))

\* calculateDistance on the two lookups: -1 (null) when either location has
\* no coordinates, else the great-circle miles
MilesBetween(originCoords, destCoords) ==
    IF ~originCoords.found \/ ~destCoords.found THEN -1
    ELSE IF originCoords.place = destCoords.place THEN 0
    ELSE IF {originCoords.place, destCoords.place} = {"Chicago", "Gary"} THEN 30
    ELSE 800

DistanceMiles(a, b) == MilesBetween(getCoordinates(a), getCoordinates(b))

(* --------------------------- DistanceCalculator ------------------------ *)
\* 0.3 * exp(-(d - 500) / 1000) in score units, tabulated per started
\* hundred miles beyond 500 (exp is not available on integers)
ExpDecayScaled(d) ==
    LET x == (d - 500) \div 100
        t == <<814354, 736858, 666736, 603288, 545878, 493930, 446927,
               404396, 365913, 331091>>
    IN  IF x = 0 THEN 900000 ELSE IF x <= 10 THEN t[x] ELSE 299584

\* variant: the 150-300 mile segment starts at 0.8 instead of 0.7
calculateProximityScore_fairFrom08(d) ==
    IF d <= 50 THEN ScoreUnit
    ELSE IF d <= 150 THEN 2700000 - (d - 50) * 6000
    ELSE IF d <= 300 THEN 2400000 - (d - 150) * 4000
    ELSE IF d <= 500 THEN 1500000 - (d - 300) * 3000
    ELSE Max(300000, ExpDecayScaled(d))

calculateProximityScore(d) ==
    IF d <= 50 THEN ScoreUnit
    ELSE IF d <= 150 THEN 2700000 - (d - 50) * 6000
    ELSE IF d <= 300 THEN 2100000 - (d - 150) * 4000
    ELSE IF d <= 500 THEN 1500000 - (d - 300) * 3000
    ELSE Max(300000, ExpDecayScaled(d))

\* variant: the buffer has to exceed two hours
checkTimelineFeasibility_strictBuffer(carrierLocation, pickupLocation, availableDate, pickupDateTime) ==
    LET d == DistanceMiles(carrierLocation, pickupLocation)
        hoursAvailable == pickupDateTime - availableDate
        bufferHours == hoursAvailable * AVERAGE_TRUCK_SPEED_MPH * 10 - d * 12
    IN  IF d < 0
        THEN [isFeasible |-> hoursAvailable > 0, hasDistance |-> FALSE,
              distanceInMiles |-> 0, hoursAvailable |-> hoursAvailable,
              bufferHours |-> hoursAvailable * AVERAGE_TRUCK_SPEED_MPH * 10]
        ELSE [isFeasible |-> bufferHours > 2 * AVERAGE_TRUCK_SPEED_MPH * 10,
              hasDistance |-> TRUE,
              distanceInMiles |-> d, hoursAvailable |-> hoursAvailable,
              bufferHours |-> bufferHours]

\* estimatedTravelHours = miles / 55 * 1.2.  bufferHours is kept in units of
\* 1/550 hour (1 / (55 * 10)), in which hoursNeeded = miles * 12 is exact:
\* bufferHours >= 2  <=>  hoursAvailable * 550 - miles * 12 >= 2 * 550
checkTimelineFeasibility(carrierLocation, pickupLocation, availableDate, pickupDateTime) ==
    LET d == DistanceMiles(carrierLocation, pickupLocation)
        hoursAvailable == pickupDateTime - availableDate
        bufferHours == hoursAvailable * AVERAGE_TRUCK_SPEED_MPH * 10 - d * 12
    IN  IF d < 0
        THEN [isFeasible |-> hoursAvailable > 0, hasDistance |-> FALSE,
              distanceInMiles |-> 0, hoursAvailable |-> hoursAvailable,
              bufferHours |-> hoursAvailable * AVERAGE_TRUCK_SPEED_MPH * 10]
        ELSE [isFeasible |-> bufferHours >= 2 * AVERAGE_TRUCK_SPEED_MPH * 10,
              hasDistance |-> TRUE,
              distanceInMiles |-> d, hoursAvailable |-> hoursAvailable,
              bufferHours |-> bufferHours]

(* -------------------------- entities ----------------------------------- *)
\* Load.isAvailable: status === 'available' || !status
isAvailable(load) == load.status = "available" \/ load.status = ""

\* variant: the age comparison turned around
isCacheValid_inverted(carrier, t) == (t - carrier.cached_at) > carrierTTL

\* variant: an entry whose age equals the TTL still counts as valid
isCacheValid_atMostTTL(carrier, t) == (t - carrier.cached_at) <= carrierTTL

\* Carrier.isCacheValid
isCacheValid(carrier, t) == (t - carrier.cached_at) < carrierTTL

(* ------------------------ LoadMatchingAlgorithm ------------------------ *)
\* variant: every load is taken to match
checkCargoMatch_alwaysTrue(carrier, load) == load.commodity_type = load.commodity_type

\* checkCargoMatch: no cargo data means a match (benefit of the doubt)
checkCargoMatch(carrier, load) ==
    IF ~carrier.cargo_known \/ carrier.cargo_carried = {} THEN TRUE
    ELSE load.commodity_type \in carrier.cargo_carried

\* variant: without a distance the proximity counts as 0
calculateMatchFactors_noFallback(carrier, load, currentLocation, availableDate) ==
    LET tc == checkTimelineFeasibility(currentLocation, load.origin,
                                       availableDate, load.pickup_datetime)
    IN  [cargo_match |-> checkCargoMatch(carrier, load),
         location_proximity |->
             IF tc.hasDistance THEN calculateProximityScore(tc.distanceInMiles)
             ELSE 0,
         timeline_feasible |-> tc.isFeasible]

\* calculateMatchFactors: proximity 0.5 when the distance is not known
calculateMatchFactors(carrier, load, currentLocation, availableDate) ==
    LET tc == checkTimelineFeasibility(currentLocation, load.origin,
                                       availableDate, load.pickup_datetime)
    IN  [cargo_match |-> checkCargoMatch(carrier, load),
         location_proximity |->
             IF tc.hasDistance THEN calculateProximityScore(tc.distanceInMiles)
             ELSE ScoreUnit \div 2,
         timeline_feasible |-> tc.isFeasible]

\* variant: the sum is returned without the cap at 1.0
calculateOverallScore_uncapped(factors, load) ==
    LET cargo == IF factors.cargo_match THEN (ScoreUnit * 40) \div 100 ELSE 0
        location == (factors.location_proximity * 35) \div 100
        timeline == IF factors.timeline_feasible THEN (ScoreUnit * 25) \div 100 ELSE 0
        rateBonus == Min(load.loadboard_rate * (ScoreUnit \div 10000), ScoreUnit \div 10)
    IN  cargo + location + timeline + rateBonus

calculateOverallScore(factors, load) ==
    LET cargo == IF factors.cargo_match THEN (ScoreUnit * 40) \div 100 ELSE 0
        location == (factors.location_proximity * 35) \div 100
        timeline == IF factors.timeline_feasible THEN (ScoreUnit * 25) \div 100 ELSE 0
        rateBonus == Min(load.loadboard_rate * (ScoreUnit \div 10000), ScoreUnit \div 10)
    IN  Min(cargo + location + timeline + rateBonus, ScoreUnit)

NoMatch == [found |-> FALSE, load_id |-> 0, match_score |-> 0]

\* the two filters of findBestMatch: available loads, then cargo-compatible
\* loads, both in the order of the input
cargoCompatibleLoads(carrier, loads) ==
    LET availableLoads == FilterSeq(loads, {l \in Range(loads) : isAvailable(l)})
    IN  FilterSeq(availableLoads,
                  {l \in Range(availableLoads) : checkCargoMatch(carrier, l)})

\* cargoCompatibleLoads.map(...): each candidate with its score
scoredLoads(carrier, candidates, currentLocation, availableDate) ==
    [i \in DOMAIN candidates |->
        LET matchFactors == calculateMatchFactors(carrier, candidates[i],
                                                  currentLocation, availableDate)
        IN  [load |-> candidates[i],
             match_score |-> calculateOverallScore(matchFactors, candidates[i]),
             match_factors |-> matchFactors]]

\* variant: an element is placed before the elements of equal score
RECURSIVE sortByScore_unstable(_)
sortByScore_unstable(scored) ==
    IF scored = << >> THEN << >>
    ELSE LET sorted == sortByScore_unstable(SubSeq(scored, 1, Len(scored) - 1))
             x == scored[Len(scored)]
             k == Cardinality({i \in DOMAIN sorted :
                                  sorted[i].match_score > x.match_score})
         IN  SubSeq(sorted, 1, k) \o <<x>> \o SubSeq(sorted, k + 1, Len(sorted))

\* scoredLoads.sort((a, b) => b.match_score - a.match_score): descending and
\* stable (Array.prototype.sort keeps the order of elements that compare
\* equal), so an element goes behind every element whose score is not lower
RECURSIVE sortByScore(_)
sortByScore(scored) ==
    IF scored = << >> THEN << >>
    ELSE LET sorted == sortByScore(SubSeq(scored, 1, Len(scored) - 1))
             x == scored[Len(scored)]
             k == Cardinality({i \in DOMAIN sorted :
                                  sorted[i].match_score >= x.match_score})
         IN  SubSeq(sorted, 1, k) \o <<x>> \o SubSeq(sorted, k + 1, Len(sorted))

\* variant: the first candidate is returned, whatever its score
findBestMatch_firstCandidate(carrier, loads, currentLocation, availableDate) ==
    LET candidates == cargoCompatibleLoads(carrier, loads)
        scored == scoredLoads(carrier, candidates, currentLocation, availableDate)
    IN  IF candidates = << >> THEN NoMatch
        ELSE [found |-> TRUE, load_id |-> scored[1].load.load_id,
              match_score |-> scored[1].match_score]

\* variant: candidates whose pickup cannot be reached in time are dropped
findBestMatch_feasibleOnly(carrier, loads, currentLocation, availableDate) ==
    LET candidates == cargoCompatibleLoads(carrier, loads)
        scored == scoredLoads(carrier, candidates, currentLocation, availableDate)
        sorted == sortByScore(SelectSeq(scored,
                                        LAMBDA x : x.match_factors.timeline_feasible))
    IN  IF sorted = << >> THEN NoMatch
        ELSE [found |-> TRUE, load_id |-> sorted[1].load.load_id,
              match_score |-> sorted[1].match_score]

\* findBestMatch: filter, score, sort, take element 0 if its score is > 0
findBestMatch(carrier, loads, currentLocation, availableDate) ==
    LET candidates == cargoCompatibleLoads(carrier, loads)
        sorted == sortByScore(scoredLoads(carrier, candidates,
                                          currentLocation, availableDate))
    IN  IF candidates = << >> THEN NoMatch
        ELSE LET bestMatch == sorted[1]
             IN  IF bestMatch.match_score > 0
                 THEN [found |-> TRUE, load_id |-> bestMatch.load.load_id,
                       match_score |-> bestMatch.match_score]
                 ELSE NoMatch

(* ------------------------- the record store ---------------------------- *)
\* loads offered by the broker; pickup_datetime is in hours on the model clock
LoadCatalog ==
    << [load_id |-> 1, origin |-> "Chicago, IL", pickup_datetime |-> 24,
        loadboard_rate |-> 1500, commodity_type |-> 1, status |-> "available"],
       [load_id |-> 2, origin |-> "Dallas, TX", pickup_datetime |-> 12,
        loadboard_rate |-> 2500, commodity_type |-> 2, status |-> "available"] >>

\* the keys db.json holds in its apiKeys collection; lastUsedAt -1 is null
ApiKeyCatalog ==
    << [key |-> "ics_live_a", isActive |-> TRUE, lastUsedAt |-> -1],
       [key |-> "ics_live_b", isActive |-> FALSE, lastUsedAt |-> -1] >>

EmptyDoc ==
    [loads |-> << >>, carriers |-> << >>, assignments |-> << >>, apiKeys |-> << >>]

\* `null` for a CarrierDTO
NoCarrier ==
    [mc_number |-> "", dot_number |-> "", legal_name |-> "", status_code |-> "",
     allowed_to_operate |-> "", common_authority_status |-> "",
     contract_authority_status |-> "", authorized_for_property |-> "",
     operation_classification |-> << >>, bipd_on_file |-> "", bipd_required |-> "",
     cargo_known |-> FALSE, cargo_carried |-> {}, last_verified |-> 0, cached_at |-> 0]

\* CarrierService.findByMC on a document just read
findByMC(doc, mc) ==
    LET i == FindIndex(doc.carriers, LAMBDA c : c.mc_number = mc)
    IN  IF i = 0 THEN NoCarrier ELSE doc.carriers[i]

\* LoadService.getAvailableLoads on a document just read
getAvailableLoads(doc) ==
    FilterSeq(doc.loads, {l \in Range(doc.loads) : isAvailable(l)})

\* variant: a merge, the cargo set of the previous entry is kept when the new
\* profile has none
cacheCarrier_keepsCargo(doc, carrier) ==
    LET index == FindIndex(doc.carriers, LAMBDA c : c.mc_number = carrier.mc_number)
    IN  IF index # 0
        THEN [doc EXCEPT !.carriers[index] =
                 IF carrier.cargo_known THEN carrier
                 ELSE [carrier EXCEPT !.cargo_known = doc.carriers[index].cargo_known,
                                      !.cargo_carried = doc.carriers[index].cargo_carried]]
        ELSE [doc EXCEPT !.carriers = Append(@, carrier)]

\* CarrierService.cacheCarrier: the document written back
cacheCarrier(doc, carrier) ==
    LET index == FindIndex(doc.carriers, LAMBDA c : c.mc_number = carrier.mc_number)
    IN  IF index # 0
        THEN [doc EXCEPT !.carriers[index] = carrier]
        ELSE [doc EXCEPT !.carriers = Append(@, carrier)]

\* variant: only confirmed assignments count as active
hasActiveAssignment_confirmedOnly(doc, loadId) ==
    \E i \in DOMAIN doc.assignments :
        /\ doc.assignments[i].load_id = loadId
        /\ doc.assignments[i].status = "confirmed"

\* the duplicate check of LoadService.createAssignment / hasActiveAssignment
hasActiveAssignment(doc, loadId) ==
    \E i \in DOMAIN doc.assignments :
        /\ doc.assignments[i].load_id = loadId
        /\ doc.assignments[i].status \in {"pending", "confirmed"}

\* LoadService.createAssignment after the duplicate check: the document
\* written back (assignment appended, first load with that id flipped)
createAssignment(doc, loadId, carrierMC, matchScore, t) ==
    LET assignmentId == Len(doc.assignments) + 1
        assignment == [assignment_id |-> assignmentId, load_id |-> loadId,
                       carrier_mc |-> carrierMC, assigned_at |-> t,
                       match_score |-> matchScore, status |-> "pending"]
        loadIndex == FindIndex(doc.loads, LAMBDA l : l.load_id = loadId)
        withAssignment == [doc EXCEPT !.assignments = Append(@, assignment)]
    IN  IF loadIndex # 0
        THEN [withAssignment EXCEPT !.loads[loadIndex].status = "assigned"]
        ELSE withAssignment

\* LoadService.addLoad: load_id 0 and status "" stand for "not provided"
MaxLoadId(loads) ==
    IF loads = << >> THEN 0
    ELSE CHOOSE m \in {0} \cup {l.load_id : l \in Range(loads)} :
             \A l \in Range(loads) : l.load_id <= m

addLoad(doc, load) ==
    LET withId == IF load.load_id = 0
                  THEN [load EXCEPT !.load_id = MaxLoadId(doc.loads) + 1]
                  ELSE load
        withStatus == IF withId.status = ""
                      THEN [withId EXCEPT !.status = "available"]
                      ELSE withId
    IN  [doc EXCEPT !.loads = Append(@, withStatus)]

\* LoadService.updateLoadStatus: the document written back (unchanged and not
\* written when no load has the id)
updateLoadStatus(doc, loadId, status) ==
    LET index == FindIndex(doc.loads, LAMBDA l : l.load_id = loadId)
    IN  IF index = 0 THEN doc
        ELSE [doc EXCEPT !.loads[index].status = status]

(* ------------------- the verify-carrier response ----------------------- *)
\* parseFloat on the insurance texts in use: a decimal text gives its number,
\* the empty text gives NaN
parseFloat(text) ==
    CASE text = "0" -> [nan |-> FALSE, value |-> 0]
      [] text = "750" -> [nan |-> FALSE, value |-> 750]
      [] text = "1000" -> [nan |-> FALSE, value |-> 1000]
      [] OTHER -> [nan |-> TRUE, value |-> 0]

\* a >= b on JavaScript numbers: false when either side is NaN
NumberGeq(a, b) == ~a.nan /\ ~b.nan /\ a.value >= b.value

\* no response body (the request has not answered, or answered with an error)
NoResponse ==
    [sent |-> FALSE, eligible |-> FALSE, mc_number |-> "", is_active |-> FALSE,
     has_authority |-> FALSE, insurance_compliant |-> FALSE,
     allowed_to_operate |-> FALSE]

\* variant: eligibility as Carrier.isEligible computes it, without the
\* insurance condition
VerifyCarrierResponseDTO_entityIsEligible(carrierInfo) ==
    LET isActive == carrierInfo.status_code = "A"
        isAllowedToOperate == carrierInfo.allowed_to_operate = "Y"
        hasActiveAuthority == \/ carrierInfo.common_authority_status = "A"
                              \/ carrierInfo.contract_authority_status = "A"
        isInsuranceCompliant == NumberGeq(parseFloat(carrierInfo.bipd_on_file),
                                          parseFloat(carrierInfo.bipd_required))
    IN  [sent |-> TRUE,
         eligible |-> isActive /\ isAllowedToOperate /\ hasActiveAuthority,
         mc_number |-> carrierInfo.mc_number,
         is_active |-> isActive, has_authority |-> hasActiveAuthority,
         insurance_compliant |-> isInsuranceCompliant,
         allowed_to_operate |-> isAllowedToOperate]

\* Steps 5-7 of verifyCarrier: the four conditions, their conjunction and the
\* response body (validation_details flattened into it)
VerifyCarrierResponseDTO(carrierInfo) ==
    LET isActive == carrierInfo.status_code = "A"
        isAllowedToOperate == carrierInfo.allowed_to_operate = "Y"
        hasActiveAuthority == \/ carrierInfo.common_authority_status = "A"
                              \/ carrierInfo.contract_authority_status = "A"
        isInsuranceCompliant == NumberGeq(parseFloat(carrierInfo.bipd_on_file),
                                          parseFloat(carrierInfo.bipd_required))
    IN  [sent |-> TRUE,
         eligible |-> isActive /\ isAllowedToOperate /\ hasActiveAuthority
                          /\ isInsuranceCompliant,
         mc_number |-> carrierInfo.mc_number,
         is_active |-> isActive, has_authority |-> hasActiveAuthority,
         insurance_compliant |-> isInsuranceCompliant,
         allowed_to_operate |-> isAllowedToOperate]

(* ------------------------- request bookkeeping ------------------------- *)
\* One record per request slot.  pc is the await the request is suspended at.
\* The counters (idCalls .. writes) and the flags entryAtStart, freshAtStart,
\* cargoAtStart, bothOutstanding record what the request did, for the
\* properties below; resp is the body of the 200 response of verify-carrier.
Idle ==
    [kind |-> "none", pc |-> "idle", mc |-> "", loc |-> "", loadId |-> 0,
     status |-> "", score |-> 0, snap |-> EmptyDoc, carrier |-> NoCarrier,
     dot |-> "", cargo |-> {}, avail |-> << >>, outstanding |-> {},
     returned |-> {}, idCalls |-> 0, authCalls |-> 0, classCalls |-> 0,
     cargoCalls |-> 0, writes |-> 0, outcome |-> "none", err |-> "",
     entryAtStart |-> FALSE, freshAtStart |-> FALSE, cargoAtStart |-> FALSE,
     bothOutstanding |-> FALSE, resp |-> NoResponse]

\* the request has answered: drop its locals, keep what it did
Answer(q, outcome, err) ==
    [q EXCEPT !.pc = "done", !.outcome = outcome, !.err = err,
              !.snap = EmptyDoc, !.carrier = NoCarrier, !.avail = << >>,
              !.outstanding = {}, !.returned = {}, !.cargo = {}]

\* a new request takes the lowest free slot (slots are interchangeable)
CanStart(r) ==
    /\ rq[r].pc = "idle"
    /\ \A o \in 1..(r - 1) : rq[o].pc # "idle"
    /\ nops < MaxOps

\* no direct call is in progress
NoCall == [fn |-> "none", pc |-> "none"]

Init ==
    /\ file = [loads |-> LoadCatalog, carriers |-> << >>, assignments |-> << >>,
               apiKeys |-> ApiKeyCatalog]
    /\ now = 0
    /\ rq = [r \in Req |-> Idle]
    /\ nops = 0
    /\ acked = [asg |-> << >>, car |-> {}]
    /\ calc = NoCall

\* the wall clock
Tick ==
    /\ now < MaxTime
    /\ now' = now + TickHours
    /\ UNCHANGED <<file, rq, nops, acked>>

\* the response has been delivered; the slot can serve another request
Finish(r) ==
    /\ rq[r].pc = "done"
    /\ rq' = [rq EXCEPT ![r] = Idle]
    /\ UNCHANGED <<file, now, nops, acked>>

(* --------------------- CarrierController.verifyCarrier ----------------- *)
\* the profile assembled from the three lookups (Step 3)
BuildCarrierDTO(mc, docketInfo, authorityData, operationClassification, t) ==
    LET hasAuth == authorityData # << >>
    IN  [mc_number |-> mc,
         dot_number |-> docketInfo.dotNumber,
         legal_name |-> OrElse(docketInfo.legalName, ""),
         status_code |-> OrElse(docketInfo.statusCode, ""),
         allowed_to_operate |-> OrElse(docketInfo.allowedToOperate, "N"),
         common_authority_status |->
             IF hasAuth THEN OrElse(authorityData[1].commonAuthorityStatus, "") ELSE "",
         contract_authority_status |->
             IF hasAuth THEN OrElse(authorityData[1].contractAuthorityStatus, "") ELSE "",
         authorized_for_property |->
             IF hasAuth THEN OrElse(authorityData[1].authorizedForProperty, "N") ELSE "N",
         operation_classification |-> operationClassification,
         bipd_on_file |-> OrElse(docketInfo.bipdInsuranceOnFile, "0"),
         bipd_required |-> OrElse(docketInfo.bipdRequiredAmount, "0"),
         cargo_known |-> FALSE, cargo_carried |-> {},
         last_verified |-> t, cached_at |-> t]

\* Step 1: findByMC and the validity test; a hit goes straight to the
\* eligibility response (Steps 5-7)
VerifyCarrier(r, mc) ==
    /\ CanStart(r)
    /\ LET carrierInfo == findByMC(file, mc)
           found == carrierInfo.mc_number # ""
           q == [Idle EXCEPT !.kind = "verify", !.mc = mc,
                             !.entryAtStart = found,
                             !.freshAtStart = found /\ (now - carrierInfo.cached_at) < carrierTTL]
       IN  IF found /\ isCacheValid(carrierInfo, now)
           THEN rq' = [rq EXCEPT ![r] =
                    Answer([q EXCEPT !.resp = VerifyCarrierResponseDTO(carrierInfo)],
                           "ok", "")]
           ELSE rq' = [rq EXCEPT ![r] = [q EXCEPT !.pc = "v_docket"]]
    /\ nops' = nops + 1
    /\ UNCHANGED <<file, now, acked>>

\* variant: the classification lookup is left out of the fan-out
VerifyDocket_authorityOnly(r, ok) ==
    /\ rq[r].pc = "v_docket"
    /\ LET q == [rq[r] EXCEPT !.idCalls = @ + 1]
       IN  IF ok
           THEN rq' = [rq EXCEPT ![r] =
                    [q EXCEPT !.pc = "v_await",
                              !.dot = DocketRegistry(q.mc).dotNumber,
                              !.authCalls = @ + 1,
                              !.outstanding = {"authority"}]]
           ELSE rq' = [rq EXCEPT ![r] = Answer(q, "error", "upstream")]
    /\ UNCHANGED <<file, now, nops, acked>>

\* Step 2a: getDocketNumberByMC returns (ok) or throws; on success the
\* authority and classification calls are both issued before the next await
VerifyDocket(r, ok) ==
    /\ rq[r].pc = "v_docket"
    /\ LET q == [rq[r] EXCEPT !.idCalls = @ + 1]
       IN  IF ok
           THEN rq' = [rq EXCEPT ![r] =
                    [q EXCEPT !.pc = "v_await",
                              !.dot = DocketRegistry(q.mc).dotNumber,
                              !.authCalls = @ + 1, !.classCalls = @ + 1,
                              !.outstanding = {"authority", "classification"},
                              !.bothOutstanding = TRUE]]
           ELSE rq' = [rq EXCEPT ![r] = Answer(q, "error", "upstream")]
    /\ UNCHANGED <<file, now, nops, acked>>

\* variant: a failed lookup still caches what has been gathered so far
VerifyLookupReturn_cachesPartial(r, which, ok) ==
    /\ rq[r].pc = "v_await"
    /\ which \in rq[r].outstanding
    /\ LET q == [rq[r] EXCEPT !.outstanding = @ \ {which},
                              !.returned = @ \cup {which}]
           partial == BuildCarrierDTO(q.mc, DocketRegistry(q.mc), << >>, << >>, now)
       IN  IF ~ok
           THEN /\ file' = cacheCarrier(file, partial)
                /\ rq' = [rq EXCEPT ![r] =
                       Answer([q EXCEPT !.writes = @ + 1], "error", "upstream")]
           ELSE /\ UNCHANGED file
                /\ IF q.outstanding # {}
                   THEN rq' = [rq EXCEPT ![r] = q]
                   ELSE rq' = [rq EXCEPT ![r] =
                            [q EXCEPT !.pc = "cache_read",
                                      !.carrier = BuildCarrierDTO(q.mc, DocketRegistry(q.mc),
                                                      AuthorityRegistry(q.dot),
                                                      ClassificationRegistry(q.dot), now)]]
    /\ UNCHANGED <<now, nops, acked>>

\* variant: the profile is assembled as soon as one of the two lookups has
\* returned
VerifyLookupReturn_firstReturnAssembles(r, which, ok) ==
    /\ rq[r].pc = "v_await"
    /\ which \in rq[r].outstanding
    /\ LET q == [rq[r] EXCEPT !.outstanding = @ \ {which},
                              !.returned = @ \cup {which}]
       IN  IF ~ok
           THEN rq' = [rq EXCEPT ![r] = Answer(q, "error", "upstream")]
           ELSE rq' = [rq EXCEPT ![r] =
                    [q EXCEPT !.pc = "cache_read",
                              !.carrier = BuildCarrierDTO(q.mc, DocketRegistry(q.mc),
                                              AuthorityRegistry(q.dot),
                                              ClassificationRegistry(q.dot), now)]]
    /\ UNCHANGED <<file, now, nops, acked>>

\* variant: a lookup that fails is only noted; the request keeps waiting
VerifyLookupReturn_failureLeavesPending(r, which, ok) ==
    /\ rq[r].pc = "v_await"
    /\ which \in rq[r].outstanding
    /\ LET q == [rq[r] EXCEPT !.outstanding = @ \ {which},
                              !.returned = @ \cup {which}]
       IN  IF ~ok \/ q.outstanding # {}
           THEN rq' = [rq EXCEPT ![r] = q]
           ELSE rq' = [rq EXCEPT ![r] =
                    [q EXCEPT !.pc = "cache_read",
                              !.carrier = BuildCarrierDTO(q.mc, DocketRegistry(q.mc),
                                              AuthorityRegistry(q.dot),
                                              ClassificationRegistry(q.dot), now)]]
    /\ UNCHANGED <<file, now, nops, acked>>

\* Step 2b: one of the two parallel lookups settles.  Promise.all rejects on
\* the first failure and resolves when both have returned; the profile is
\* assembled in the same turn.
VerifyLookupReturn(r, which, ok) ==
    /\ rq[r].pc = "v_await"
    /\ which \in rq[r].outstanding
    /\ LET q == [rq[r] EXCEPT !.outstanding = @ \ {which},
                              !.returned = @ \cup {which}]
       IN  IF ~ok
           THEN rq' = [rq EXCEPT ![r] = Answer(q, "error", "upstream")]
           ELSE IF q.outstanding # {}
           THEN rq' = [rq EXCEPT ![r] = q]
           ELSE rq' = [rq EXCEPT ![r] =
                    [q EXCEPT !.pc = "cache_read",
                              !.carrier = BuildCarrierDTO(q.mc, DocketRegistry(q.mc),
                                              AuthorityRegistry(q.dot),
                                              ClassificationRegistry(q.dot), now)]]
    /\ UNCHANGED <<file, now, nops, acked>>

(* ------------------------------ db.read() ------------------------------ *)
\* `await db.read()` at the head of cacheCarrier, createAssignment, addLoad
\* and updateLoadStatus: db.data becomes the document on disk at this instant
ReadTarget(pc) ==
    CASE pc = "cache_read" -> "cache_write"
      [] pc = "asg_read" -> "asg_write"
      [] pc = "add_read" -> "add_write"
      [] pc = "upd_read" -> "upd_write"
      [] OTHER -> pc

DbRead(r) ==
    /\ rq[r].pc \in {"cache_read", "asg_read", "add_read", "upd_read"}
    /\ rq' = [rq EXCEPT ![r] = [@ EXCEPT !.snap = file, !.pc = ReadTarget(@)]]
    /\ UNCHANGED <<file, now, nops, acked>>

(* ----------------------- CarrierService.cacheCarrier ------------------- *)
\* the upsert on the document read and the write of that whole document;
\* then the caller's continuation: verifyCarrier builds its response from the
\* profile it assembled,
\* assignLoad runs the matching algorithm on the loads it fetched earlier
CacheCarrierWrite(r) ==
    /\ rq[r].pc = "cache_write"
    /\ file' = cacheCarrier(rq[r].snap, rq[r].carrier)
    /\ acked' = [acked EXCEPT !.car = @ \cup {rq[r].mc}]
    /\ LET q == [rq[r] EXCEPT !.writes = @ + 1]
           matchResult == findBestMatch(q.carrier, q.avail, q.loc, now)
       IN  IF q.kind = "verify"
           THEN rq' = [rq EXCEPT ![r] =
                    Answer([q EXCEPT !.resp = VerifyCarrierResponseDTO(q.carrier)],
                           "ok", "")]
           ELSE IF ~matchResult.found
           THEN rq' = [rq EXCEPT ![r] = Answer(q, "error", "no suitable load")]
           ELSE rq' = [rq EXCEPT ![r] =
                    [q EXCEPT !.pc = "asg_read",
                              !.loadId = matchResult.load_id,
                              !.score = matchResult.match_score]]
    /\ UNCHANGED <<now, nops>>

(* ---------------------- LoadService.createAssignment ------------------- *)
CreateAssignmentCall(r, loadId, carrierMC) ==
    /\ CanStart(r)
    /\ rq' = [rq EXCEPT ![r] =
           [Idle EXCEPT !.kind = "createAssignment", !.pc = "asg_read",
                        !.mc = carrierMC, !.loadId = loadId, !.score = ScoreUnit]]
    /\ nops' = nops + 1
    /\ UNCHANGED <<file, now, acked>>

\* variant: the duplicate check is skipped
CreateAssignmentWrite_noCheck(r) ==
    /\ rq[r].pc = "asg_write"
    /\ LET q == rq[r]
       IN  /\ file' = createAssignment(q.snap, q.loadId, q.mc, q.score, now)
           /\ acked' = [acked EXCEPT !.asg = Append(@, <<q.loadId, q.mc>>)]
           /\ rq' = [rq EXCEPT ![r] = Answer([q EXCEPT !.writes = @ + 1], "ok", "")]
    /\ UNCHANGED <<now, nops>>

\* duplicate check on the document read, then append + flip + one write
CreateAssignmentWrite(r) ==
    /\ rq[r].pc = "asg_write"
    /\ LET q == rq[r]
       IN  IF hasActiveAssignment(q.snap, q.loadId)
           THEN /\ rq' = [rq EXCEPT ![r] = Answer(q, "error", "duplicate")]
                /\ UNCHANGED <<file, acked>>
           ELSE /\ file' = createAssignment(q.snap, q.loadId, q.mc, q.score, now)
                /\ acked' = [acked EXCEPT !.asg = Append(@, <<q.loadId, q.mc>>)]
                /\ rq' = [rq EXCEPT ![r] =
                       Answer([q EXCEPT !.writes = @ + 1], "ok", "")]
    /\ UNCHANGED <<now, nops>>

(* --------------- LoadService.addLoad / updateLoadStatus ---------------- *)
NewLoad(loadId) ==
    [load_id |-> loadId, origin |-> "Gary, IN", pickup_datetime |-> 36,
     loadboard_rate |-> 900, commodity_type |-> 1, status |-> ""]

AddLoadCall(r, loadId) ==
    /\ CanStart(r)
    /\ rq' = [rq EXCEPT ![r] =
           [Idle EXCEPT !.kind = "addLoad", !.pc = "add_read", !.loadId = loadId]]
    /\ nops' = nops + 1
    /\ UNCHANGED <<file, now, acked>>

AddLoadWrite(r) ==
    /\ rq[r].pc = "add_write"
    /\ Len(rq[r].snap.loads) < MaxLoads
    /\ file' = addLoad(rq[r].snap, NewLoad(rq[r].loadId))
    /\ rq' = [rq EXCEPT ![r] = Answer([@ EXCEPT !.writes = @ + 1], "ok", "")]
    /\ UNCHANGED <<now, nops, acked>>

UpdateLoadStatusCall(r, loadId, status) ==
    /\ CanStart(r)
    /\ rq' = [rq EXCEPT ![r] =
           [Idle EXCEPT !.kind = "updateLoadStatus", !.pc = "upd_read",
                        !.loadId = loadId, !.status = status]]
    /\ nops' = nops + 1
    /\ UNCHANGED <<file, now, acked>>

UpdateLoadStatusWrite(r) ==
    /\ rq[r].pc = "upd_write"
    /\ LET q == rq[r]
           found == \E l \in Range(q.snap.loads) : l.load_id = q.loadId
       IN  IF ~found
           THEN /\ rq' = [rq EXCEPT ![r] = Answer(q, "ok", "not found")]
                /\ UNCHANGED file
           ELSE /\ file' = updateLoadStatus(q.snap, q.loadId, q.status)
                /\ rq' = [rq EXCEPT ![r] =
                       Answer([q EXCEPT !.writes = @ + 1], "ok", "")]
    /\ UNCHANGED <<now, nops, acked>>

(* ----------------------- LoadController.assignLoad --------------------- *)
\* variant: the placeholder is stored without the DOT number
MinimalCarrier_noDot(mc, dot, cargoTypes, t) ==
    [NoCarrier EXCEPT !.mc_number = mc,
                      !.cargo_known = TRUE, !.cargo_carried = cargoTypes,
                      !.status_code = "A", !.allowed_to_operate = "Y",
                      !.common_authority_status = "A",
                      !.contract_authority_status = "A",
                      !.authorized_for_property = "Y",
                      !.last_verified = t, !.cached_at = t]

\* the minimal carrier object assignLoad builds when none is cached
MinimalCarrier(mc, dot, cargoTypes, t) ==
    [NoCarrier EXCEPT !.mc_number = mc, !.dot_number = dot,
                      !.cargo_known = TRUE, !.cargo_carried = cargoTypes,
                      !.status_code = "A", !.allowed_to_operate = "Y",
                      !.common_authority_status = "A",
                      !.contract_authority_status = "A",
                      !.authorized_for_property = "Y",
                      !.last_verified = t, !.cached_at = t]

\* variant: a fresh cached cargo set is used instead of the cargo lookup
AssignLoad_usesCachedCargo(r, mc, loc) ==
    /\ CanStart(r)
    /\ LET c == findByMC(file, mc)
           found == c.mc_number # ""
           q == [Idle EXCEPT !.kind = "assign", !.mc = mc, !.loc = loc,
                             !.entryAtStart = found,
                             !.freshAtStart = found /\ (now - c.cached_at) < carrierTTL,
                             !.cargoAtStart = found /\ c.cargo_known /\ c.cargo_carried # {}]
       IN  IF found /\ c.dot_number # "" /\ q.cargoAtStart /\ q.freshAtStart
           THEN rq' = [rq EXCEPT ![r] =
                    [q EXCEPT !.pc = "a_loads", !.dot = c.dot_number,
                              !.cargo = c.cargo_carried]]
           ELSE IF found /\ c.dot_number # ""
           THEN rq' = [rq EXCEPT ![r] =
                    [q EXCEPT !.pc = "a_cargo", !.dot = c.dot_number,
                              !.cargoCalls = @ + 1]]
           ELSE rq' = [rq EXCEPT ![r] = [q EXCEPT !.pc = "a_dot"]]
    /\ nops' = nops + 1
    /\ UNCHANGED <<file, now, acked>>

\* 1. getDotNumberFromCache; with a cached DOT number the cargo lookup is
\* issued in the same turn
AssignLoad(r, mc, loc) ==
    /\ CanStart(r)
    /\ LET c == findByMC(file, mc)
           found == c.mc_number # ""
           q == [Idle EXCEPT !.kind = "assign", !.mc = mc, !.loc = loc,
                             !.entryAtStart = found,
                             !.freshAtStart = found /\ (now - c.cached_at) < carrierTTL,
                             !.cargoAtStart = found /\ c.cargo_known /\ c.cargo_carried # {}]
       IN  IF found /\ c.dot_number # ""
           THEN rq' = [rq EXCEPT ![r] =
                    [q EXCEPT !.pc = "a_cargo", !.dot = c.dot_number,
                              !.cargoCalls = @ + 1]]
           ELSE rq' = [rq EXCEPT ![r] = [q EXCEPT !.pc = "a_dot"]]
    /\ nops' = nops + 1
    /\ UNCHANGED <<file, now, acked>>

\* FMCSAService.getDotNumberFromMC: the cache is asked again, then the
\* docket-number endpoint; the cargo lookup is issued once the DOT is known
AssignResolveDot(r, ok) ==
    /\ rq[r].pc = "a_dot"
    /\ LET q == rq[r]
           c == findByMC(file, q.mc)
       IN  IF c.mc_number # "" /\ c.dot_number # ""
           THEN /\ ok
                /\ rq' = [rq EXCEPT ![r] =
                       [q EXCEPT !.pc = "a_cargo", !.dot = c.dot_number,
                                 !.cargoCalls = @ + 1]]
           ELSE IF ok
           THEN rq' = [rq EXCEPT ![r] =
                    [q EXCEPT !.pc = "a_cargo", !.idCalls = @ + 1,
                              !.dot = DocketRegistry(q.mc).dotNumber,
                              !.cargoCalls = @ + 1]]
           ELSE rq' = [rq EXCEPT ![r] =
                    Answer([q EXCEPT !.idCalls = @ + 1], "error", "upstream")]
    /\ UNCHANGED <<file, now, nops, acked>>

\* 2. getCargoCarried returns (ok) or throws
AssignCargoReturn(r, ok) ==
    /\ rq[r].pc = "a_cargo"
    /\ IF ok
       THEN rq' = [rq EXCEPT ![r] =
                [@ EXCEPT !.pc = "a_loads", !.cargo = CargoRegistry(rq[r].dot)]]
       ELSE rq' = [rq EXCEPT ![r] = Answer(@, "error", "upstream")]
    /\ UNCHANGED <<file, now, nops, acked>>

\* 3. getAvailableLoads
AssignGetAvailableLoads(r) ==
    /\ rq[r].pc = "a_loads"
    /\ LET availableLoads == getAvailableLoads(file)
       IN  IF availableLoads = << >>
           THEN rq' = [rq EXCEPT ![r] = Answer(@, "error", "no available loads")]
           ELSE rq' = [rq EXCEPT ![r] =
                    [@ EXCEPT !.pc = "a_find", !.avail = availableLoads]]
    /\ UNCHANGED <<file, now, nops, acked>>

\* 4. findByMC; the cached object gets the fresh cargo list, otherwise the
\* minimal object is built; either one goes to cacheCarrier
AssignFindCarrier(r) ==
    /\ rq[r].pc = "a_find"
    /\ LET q == rq[r]
           c == findByMC(file, q.mc)
           carrier == IF c.mc_number # ""
                      THEN [c EXCEPT !.cargo_known = TRUE, !.cargo_carried = q.cargo]
                      ELSE MinimalCarrier(q.mc, q.dot, q.cargo, now)
       IN  rq' = [rq EXCEPT ![r] = [q EXCEPT !.pc = "cache_read", !.carrier = carrier]]
    /\ UNCHANGED <<file, now, nops, acked>>

(* ---------------------------- specifications --------------------------- *)
Step(r) ==
    \/ \E mc \in MCNumbers : VerifyCarrier(r, mc)
    \/ \E ok \in BOOLEAN : VerifyDocket(r, ok)
    \/ \E which \in {"authority", "classification"}, ok \in BOOLEAN :
           VerifyLookupReturn(r, which, ok)
    \/ DbRead(r)
    \/ CacheCarrierWrite(r)
    \/ \E mc \in MCNumbers, loc \in Locations : AssignLoad(r, mc, loc)
    \/ \E ok \in BOOLEAN : AssignResolveDot(r, ok)
    \/ \E ok \in BOOLEAN : AssignCargoReturn(r, ok)
    \/ AssignGetAvailableLoads(r)
    \/ AssignFindCarrier(r)
    \/ \E loadId \in {1, 9} : CreateAssignmentCall(r, loadId, "200")
    \/ CreateAssignmentWrite(r)
    \/ \E loadId \in {0, 1} : AddLoadCall(r, loadId)
    \/ AddLoadWrite(r)
    \/ \E loadId \in {1, 9}, status \in {"available", "assigned"} :
           UpdateLoadStatusCall(r, loadId, status)
    \/ UpdateLoadStatusWrite(r)
    \/ Finish(r)

\* A request that has answered is retired before anything else moves: its
\* "done" record only exposes what it did, and retiring it touches nothing
\* shared.
NoneDone == \A r \in Req : rq[r].pc # "done"

\* requests of any kind in flight together
Next ==
    \/ NoneDone /\ Tick /\ UNCHANGED calc
    \/ \E r \in Req : (NoneDone \/ rq[r].pc = "done") /\ Step(r) /\ UNCHANGED calc

Spec == Init /\ [][Next]_vars

\* one request at a time: a request starts only when no other is in flight
Quiet(r) == \A o \in Req \ {r} : rq[o].pc \in {"idle", "done"}

SeqNext ==
    \/ NoneDone /\ Tick /\ UNCHANGED calc
    \/ \E r \in Req : Quiet(r) /\ (NoneDone \/ rq[r].pc = "done") /\ Step(r)
                        /\ UNCHANGED calc

SeqSpec == Init /\ [][SeqNext]_vars

(* ------------------ verify-carrier requests to their end --------------- *)
\* what a verify-carrier request in slot r does after it has come in: every
\* FMCSA call is an axios call with `timeout: appConfig.fmcsa.timeout`, so it
\* settles (returns, or throws on an error or on the timeout); the lowdb
\* read and write are local file operations; the response is delivered
VerifySettle(r) ==
    /\ NoneDone \/ rq[r].pc = "done"
    /\ \/ \E ok \in BOOLEAN : VerifyDocket(r, ok)
       \/ \E which \in {"authority", "classification"}, ok \in BOOLEAN :
              VerifyLookupReturn(r, which, ok)
       \/ DbRead(r)
       \/ CacheCarrierWrite(r)
       \/ Finish(r)
    /\ UNCHANGED calc

VerifyNext ==
    \/ NoneDone /\ Tick /\ UNCHANGED calc
    \/ \E r \in Req, mc \in MCNumbers :
           NoneDone /\ VerifyCarrier(r, mc) /\ UNCHANGED calc
    \/ \E r \in Req : VerifySettle(r)

\* verify-carrier requests only, each pending call settling at some point
VerifyLiveSpec ==
    Init /\ [][VerifyNext]_vars /\ \A r \in Req : WF_vars(VerifySettle(r))

(* ------------------- the middleware in front of a route ---------------- *)
\* requests sent to the two POST routes
MaxRequests == 3

\* texts are sequences of characters where the code looks inside them
Digits == {"0", "1", "2", "3", "4", "5", "6", "7", "8", "9"}

\* text.replace(/^MC-?/i, '')
StripMCPrefix(chars) ==
    IF Len(chars) >= 2 /\ chars[1] \in {"M", "m"} /\ chars[2] \in {"C", "c"}
    THEN IF Len(chars) >= 3 /\ chars[3] = "-"
         THEN SubSeq(chars, 4, Len(chars))
         ELSE SubSeq(chars, 3, Len(chars))
    ELSE chars

\* String.prototype.trim
RECURSIVE Trim(_)
Trim(chars) ==
    IF chars = << >> THEN chars
    ELSE IF chars[1] = " " THEN Trim(Tail(chars))
    ELSE IF chars[Len(chars)] = " " THEN Trim(SubSeq(chars, 1, Len(chars) - 1))
    ELSE chars

\* the characters as one string
RECURSIVE Join(_)
Join(chars) == IF chars = << >> THEN "" ELSE chars[1] \o Join(Tail(chars))

normalizeMCNumber(mcNumber) == Join(Trim(StripMCPrefix(mcNumber)))

\* /^\d{1,7}$/
OneToSevenDigits(cleanMC) ==
    /\ Len(cleanMC) \in 1..7
    /\ \A i \in DOMAIN cleanMC : cleanMC[i] \in Digits

\* variant: any number of digits is accepted
isValidMCNumber_anyLength(mcNumber) ==
    /\ mcNumber # << >>
    /\ Trim(StripMCPrefix(mcNumber)) # << >>
    /\ \A i \in DOMAIN Trim(StripMCPrefix(mcNumber)) :
           Trim(StripMCPrefix(mcNumber))[i] \in Digits

isValidMCNumber(mcNumber) ==
    /\ mcNumber # << >>
    /\ OneToSevenDigits(Trim(StripMCPrefix(mcNumber)))

\* /^.+,\s*.+$/ on the parts around the commas: text before a comma and text
\* after it
CityCommaState(parts) ==
    /\ Len(parts) >= 2
    /\ parts[1] # ""
    /\ parts[Len(parts)] # ""

isValidLocation(location) ==
    /\ location # ""
    /\ CityCommaState(LocationParts(location))

\* the validation chains of the two routes: notEmpty() and the custom check
ValidationErrors(route, mc_number, current_location) ==
    (IF mc_number = << >> \/ ~isValidMCNumber(mc_number)
     THEN {"mc_number"} ELSE {})
    \cup
    (IF route = "assign-load"
           /\ (current_location = "" \/ ~isValidLocation(current_location))
     THEN {"current_location"} ELSE {})

\* the carrier numbers clients send: with prefix, plain, eight digits, with a
\* letter, missing
McTexts ==
    {<<"M", "C", "-", "1", "0", "0">>, <<"2", "0", "0">>,
     <<"1", "2", "3", "4", "5", "6", "7", "8">>, <<"1", "0", "0", "x">>, << >>}

\* the keys clients send: none, the active one, the deactivated one, an
\* unknown one
SentKeys == {"", "ics_live_a", "ics_live_b", "ics_live_z"}

HttpRequests ==
    {[route |-> "verify-carrier", apiKey |-> k, mc_number |-> mc,
      current_location |-> ""] : k \in SentKeys, mc \in McTexts}
    \cup
    {[route |-> "assign-load", apiKey |-> k, mc_number |-> mc,
      current_location |-> loc] :
         k \in SentKeys, mc \in McTexts, loc \in {"Chicago, IL", "Chicago"}}

\* the request is being served by the middleware
InMiddleware(pc) == calc.fn = "apiKeyAuth" /\ calc.pc = pc

\* the response has been sent by the middleware (401, 400), or the request
\* has been handed to its controller
MiddlewareFree ==
    \/ calc = NoCall
    \/ calc.fn = "apiKeyAuth" /\ calc.pc \in {"responded", "handed"}
                              /\ calc.n < MaxRequests

FindKey(apiKeys, key) == FindIndex(apiKeys, LAMBDA k : k.key = key)

\* apiKeyAuth up to its first await: no key, 401; else validateApiKey starts
\* reading the key storage.  assignedBefore notes, for the properties, the
\* loads whose assignment had been reported to a client when the request
\* came in.
ApiKeyAuth(req) ==
    /\ MiddlewareFree
    /\ LET call == [fn |-> "apiKeyAuth", pc |-> "getStorage",
                    route |-> req.route, apiKey |-> req.apiKey,
                    mc_number |-> req.mc_number,
                    current_location |-> req.current_location,
                    storage |-> << >>, data |-> EmptyDoc, status |-> 0,
                    writes |-> 0, slot |-> 0,
                    assignedBefore |-> {acked.asg[i][1] : i \in DOMAIN acked.asg},
                    n |-> IF calc = NoCall THEN 1 ELSE calc.n + 1]
       IN  IF req.apiKey = ""
           THEN calc' = [call EXCEPT !.pc = "responded", !.status = 401]
           ELSE calc' = call
    /\ UNCHANGED <<file, now, rq, nops, acked>>

\* validateApiKey after getStorage: an unknown or deactivated key is turned
\* away with 401, otherwise updateLastUsed starts reading the storage again
ValidateApiKey ==
    /\ InMiddleware("getStorage")
    /\ LET i == FindKey(file.apiKeys, calc.apiKey)
       IN  IF i = 0 \/ ~file.apiKeys[i].isActive
           THEN calc' = [calc EXCEPT !.pc = "responded", !.status = 401]
           ELSE calc' = [calc EXCEPT !.pc = "updateLastUsed"]
    /\ UNCHANGED <<file, now, rq, nops, acked>>

\* updateLastUsed after its getStorage: the key's lastUsedAt is set in the
\* collection just read and saveStorage starts reading the file
UpdateLastUsed ==
    /\ InMiddleware("updateLastUsed")
    /\ LET i == FindKey(file.apiKeys, calc.apiKey)
       IN  IF i = 0
           THEN calc' = [calc EXCEPT !.pc = "validate"]
           ELSE calc' = [calc EXCEPT !.pc = "saveStorage",
                                     !.storage = [file.apiKeys EXCEPT ![i].lastUsedAt = now]]
    /\ UNCHANGED <<file, now, rq, nops, acked>>

\* saveStorage: fs.readFile and JSON.parse of db.json
SaveStorageRead ==
    /\ InMiddleware("saveStorage")
    /\ calc' = [calc EXCEPT !.pc = "writeFile", !.data = file]
    /\ UNCHANGED <<file, now, rq, nops, acked>>

\* saveStorage: data.apiKeys = storage.apiKeys and fs.writeFile of the whole
\* document; the key is valid, apiKeyAuth calls next()
SaveStorageWrite ==
    /\ InMiddleware("writeFile")
    /\ file' = [calc.data EXCEPT !.apiKeys = calc.storage]
    /\ calc' = [calc EXCEPT !.pc = "validate", !.writes = @ + 1, !.data = EmptyDoc,
                            !.storage = << >>]
    /\ UNCHANGED <<now, rq, nops, acked>>

\* the validate middleware: 400 with the field errors, or next()
Validate ==
    /\ InMiddleware("validate")
    /\ IF ValidationErrors(calc.route, calc.mc_number, calc.current_location) # {}
       THEN calc' = [calc EXCEPT !.pc = "responded", !.status = 400]
       ELSE calc' = [calc EXCEPT !.pc = "controller"]
    /\ UNCHANGED <<file, now, rq, nops, acked>>

\* the route's controller takes the request
RouteVerifyCarrier(r) ==
    /\ InMiddleware("controller")
    /\ calc.route = "verify-carrier"
    /\ VerifyCarrier(r, normalizeMCNumber(calc.mc_number))
    /\ calc' = [calc EXCEPT !.pc = "handed", !.slot = r]

RouteAssignLoad(r) ==
    /\ InMiddleware("controller")
    /\ calc.route = "assign-load"
    /\ AssignLoad(r, normalizeMCNumber(calc.mc_number), calc.current_location)
    /\ calc' = [calc EXCEPT !.pc = "handed", !.slot = r]

\* what a controller does after it has taken the request
ControllerStep(r) ==
    \/ \E ok \in BOOLEAN : VerifyDocket(r, ok)
    \/ \E which \in {"authority", "classification"}, ok \in BOOLEAN :
           VerifyLookupReturn(r, which, ok)
    \/ DbRead(r)
    \/ CacheCarrierWrite(r)
    \/ \E ok \in BOOLEAN : AssignResolveDot(r, ok)
    \/ \E ok \in BOOLEAN : AssignCargoReturn(r, ok)
    \/ AssignGetAvailableLoads(r)
    \/ AssignFindCarrier(r)
    \/ CreateAssignmentWrite(r)
    \/ Finish(r)

\* requests come in through the middleware; the middleware of one request
\* runs while the controllers of earlier requests are at their awaits
AuthNext ==
    \/ NoneDone /\ \E req \in HttpRequests : ApiKeyAuth(req)
    \/ NoneDone /\ ValidateApiKey
    \/ NoneDone /\ UpdateLastUsed
    \/ NoneDone /\ SaveStorageRead
    \/ NoneDone /\ SaveStorageWrite
    \/ NoneDone /\ Validate
    \/ NoneDone /\ \E r \in Req : RouteVerifyCarrier(r)
    \/ NoneDone /\ \E r \in Req : RouteAssignLoad(r)
    \/ \E r \in Req : (NoneDone \/ rq[r].pc = "done") /\ ControllerStep(r)
                        /\ UNCHANGED calc

AuthSpec == Init /\ [][AuthNext]_vars

(* ------------- direct calls of the matching engine functions ----------- *)
\* longest candidate list passed to findBestMatch
MaxCandidates == 2
\* distances passed to calculateProximityScore: up to MaxMiles, every
\* MileStep miles and the mile after
MaxMiles == 1700
MileStep == 25

\* current_location texts: two that parse and resolve, one without a state
CallerLocations == {"Chicago, IL", "Gary, IN", "Chicago"}

\* pickup locations: two that resolve, one the city database does not know
PickupLocations == {"Chicago, IL", "Dallas, TX", "Nowhere, ZZ"}

\* loads as the store can hold them (LoadDTO without its id): the rate is not
\* negative (POST /api/load/create), the status may be missing
LoadShapes ==
    {[origin |-> o, pickup_datetime |-> p, loadboard_rate |-> rate,
      commodity_type |-> c, status |-> st] :
        o \in PickupLocations, p \in {1, 24}, rate \in {0, 1500},
        c \in {1, 2}, st \in {"available", "assigned", ""}}

\* the load ids by position in the candidate list (not ascending)
LoadIdAt == <<7, 3, 5>>

LoadLists ==
    UNION {{[i \in 1..n |-> [load_id |-> LoadIdAt[i]] @@ f[i]] :
               f \in [1..n -> LoadShapes]} : n \in 0..MaxCandidates}

\* the instant the carrier is available from: before every pickup, and
\* between the early and the late pickup
AvailableDates == {0, 12}

\* carrier profiles: no cargo data, an empty cargo list, a populated one
MatchCarriers ==
    {[MinimalCarrier("100", "44110", {}, 0) EXCEPT !.cargo_known = FALSE],
     MinimalCarrier("100", "44110", {}, 0),
     MinimalCarrier("100", "44110", {1}, 0)}

MileSamples == {d \in 0..MaxMiles : d % MileStep \in {0, 1}}

\* one call with its arguments, about to run
FnInit ==
    /\ file = [loads |-> LoadCatalog, carriers |-> << >>, assignments |-> << >>,
               apiKeys |-> ApiKeyCatalog]
    /\ now = 0
    /\ rq = [r \in Req |-> Idle]
    /\ nops = 0
    /\ acked = [asg |-> << >>, car |-> {}]
    /\ \/ calc \in {[fn |-> "findBestMatch", pc |-> "called", carrier |-> c,
                      loads |-> ls, currentLocation |-> loc, availableDate |-> t] :
                         c \in MatchCarriers, ls \in LoadLists, loc \in CallerLocations,
                         t \in AvailableDates}
       \/ calc \in {[fn |-> "checkTimelineFeasibility", pc |-> "called",
                      carrierLocation |-> a, pickupLocation |-> b,
                      carrierAvailableDate |-> t, pickupDateTime |-> t + h] :
                         a \in CallerLocations, b \in PickupLocations,
                         t \in {0, 12}, h \in {-1, 0, 1, 2, 3, 19, 20, 24}}
       \/ calc \in {[fn |-> "calculateProximityScore", pc |-> "called",
                      distanceInMiles |-> d, fartherMiles |-> e] :
                         d \in MileSamples, e \in MileSamples}

\* findBestMatch runs and returns; the candidate list and the candidates'
\* scores are kept next to the result.  `error` is what the call raises: the
\* only throw on its path is parseLocation's, inside getCoordinates
CallFindBestMatch ==
    /\ calc.fn = "findBestMatch"
    /\ calc.pc = "called"
    /\ LET candidates == cargoCompatibleLoads(calc.carrier, calc.loads)
           scored == scoredLoads(calc.carrier, candidates,
                                 calc.currentLocation, calc.availableDate)
       IN  calc' = [result |-> findBestMatch(calc.carrier, calc.loads,
                                             calc.currentLocation, calc.availableDate),
                    candidates |-> candidates,
                    scores |-> [i \in DOMAIN scored |-> scored[i].match_score],
                    error |-> getCoordinates(calc.currentLocation).error]
                   @@ [calc EXCEPT !.pc = "returned"]
    /\ UNCHANGED <<file, now, rq, nops, acked>>

CallCheckTimelineFeasibility ==
    /\ calc.fn = "checkTimelineFeasibility"
    /\ calc.pc = "called"
    /\ calc' = [result |-> checkTimelineFeasibility(calc.carrierLocation,
                               calc.pickupLocation, calc.carrierAvailableDate,
                               calc.pickupDateTime)]
                @@ [calc EXCEPT !.pc = "returned"]
    /\ UNCHANGED <<file, now, rq, nops, acked>>

\* calculateProximityScore for a distance and for a second distance
CallCalculateProximityScore ==
    /\ calc.fn = "calculateProximityScore"
    /\ calc.pc = "called"
    /\ calc' = [score |-> calculateProximityScore(calc.distanceInMiles),
                fartherScore |-> calculateProximityScore(calc.fartherMiles)]
                @@ [calc EXCEPT !.pc = "returned"]
    /\ UNCHANGED <<file, now, rq, nops, acked>>

FnNext ==
    \/ CallFindBestMatch
    \/ CallCheckTimelineFeasibility
    \/ CallCalculateProximityScore

FnSpec == FnInit /\ [][FnNext]_vars

(* ------------------------------ properties ----------------------------- *)
ActiveAssignments(doc, loadId) ==
    {i \in DOMAIN doc.assignments :
        /\ doc.assignments[i].load_id = loadId
        /\ doc.assignments[i].status \in {"pending", "confirmed"}}

LoadIds == {1, 2, 3, 9}

Successes(loadId) == {i \in DOMAIN acked.asg : acked.asg[i][1] = loadId}

AllFinished == \A r \in Req : rq[r].pc \in {"idle", "done"}

\* C1: with requests executed one after another, the assignments collection
\* never holds more than one pending or confirmed assignment for a load id.
C1_AtMostOneActivePerLoad ==
    \A loadId \in LoadIds : Cardinality(ActiveAssignments(file, loadId)) <= 1

\* a createAssignment for a load that already has its assignment has read the
\* store and is about to run the duplicate check
C1_Witness ==
    \E r \in Req :
        /\ rq[r].pc = "asg_write"
        /\ Cardinality(ActiveAssignments(file, rq[r].loadId)) = 1
        /\ Len(file.assignments) >= 1

\* C2: the duplicate check and the write of createAssignment act as one
\* atomic step: whenever a createAssignment writes, the store still has no
\* active assignment for that load, and it never holds two.
C2_CheckAndWriteAtomic ==
    [][\A r \in Req :
          (rq[r].pc = "asg_write" /\ rq'[r].outcome = "ok")
              => /\ ActiveAssignments(file, rq[r].loadId) = {}
                 /\ Cardinality(ActiveAssignments(file', rq[r].loadId)) <= 1]_vars

\* C3: once all requests have finished, every write that reported success is
\* still in the store: each acknowledged assignment is in the assignments
\* collection and each acknowledged carrier has a cache entry.
C3_AckedWritesSurvive ==
    AllFinished =>
        /\ \A k \in DOMAIN acked.asg :
               \E i \in DOMAIN file.assignments :
                   /\ file.assignments[i].load_id = acked.asg[k][1]
                   /\ file.assignments[i].carrier_mc = acked.asg[k][2]
        /\ \A mc \in acked.car :
               \E i \in DOMAIN file.carriers : file.carriers[i].mc_number = mc

\* C4: a createAssignment that succeeds leaves, in the one document it
\* writes, both the new pending assignment for loadId and a load with that id
\* whose status is 'assigned'.
C4_AssignmentAndFlipTogether ==
    [][\A r \in Req :
          (rq[r].pc = "asg_write" /\ rq'[r].outcome = "ok")
              => /\ \E i \in DOMAIN file'.assignments :
                        /\ file'.assignments[i].load_id = rq[r].loadId
                        /\ file'.assignments[i].status = "pending"
                 /\ \E j \in DOMAIN file'.loads :
                        /\ file'.loads[j].load_id = rq[r].loadId
                        /\ file'.loads[j].status = "assigned"]_vars

\* C5: once a createAssignment for a load id has succeeded, a later
\* createAssignment for that load id fails with the duplicate error and
\* leaves the store as it was; the load has exactly one active assignment
\* and exactly one createAssignment ever succeeded for it.
C5_SecondCreateFails ==
    [][\A r \in Req :
          (rq[r].pc = "asg_write" /\ rq'[r].pc = "done"
                                  /\ Successes(rq[r].loadId) # {})
              => /\ rq'[r].outcome = "error"
                 /\ rq'[r].err = "duplicate"
                 /\ file' = file
                 /\ Cardinality(ActiveAssignments(file', rq[r].loadId)) = 1
                 /\ Cardinality(Successes(rq[r].loadId)) = 1
                 /\ acked' = acked]_vars

\* a second createAssignment for an assigned load has been turned away
C5_Witness ==
    \E r \in Req :
        /\ rq[r].pc = "done"
        /\ rq[r].err = "duplicate"
        /\ Cardinality(Successes(rq[r].loadId)) = 1

\* C6: a verify-carrier request that finds a cache entry younger than the
\* TTL answers at once and successfully, having issued no identity,
\* authority or classification lookup and no store write.
C6_FreshHitNoLookups ==
    \A r \in Req :
        (rq[r].kind = "verify" /\ rq[r].freshAtStart)
            => /\ rq[r].pc = "done"
               /\ rq[r].outcome = "ok"
               /\ rq[r].idCalls = 0
               /\ rq[r].authCalls = 0
               /\ rq[r].classCalls = 0
               /\ rq[r].writes = 0

\* a verify-carrier request has been answered from a fresh cache entry
C6_Witness ==
    \E r \in Req :
        /\ rq[r].kind = "verify"
        /\ rq[r].freshAtStart
        /\ rq[r].pc = "done"
        /\ \E i \in DOMAIN file.carriers :
               /\ file.carriers[i].mc_number = rq[r].mc
               /\ now - file.carriers[i].cached_at < 24

\* C7 as stated: a verify-carrier request for a carrier with no cache entry
\* issues exactly one identity call, one authority call and one
\* classification call, the latter two outstanding together.
C7_ExactlyOneOfEach ==
    \A r \in Req :
        (rq[r].kind = "verify" /\ ~rq[r].entryAtStart /\ rq[r].pc = "done")
            => /\ rq[r].idCalls = 1
               /\ rq[r].authCalls = 1
               /\ rq[r].classCalls = 1
               /\ rq[r].bothOutstanding

\* C7 amended: such a request issues exactly one identity call; when that
\* call succeeds it issues exactly one authority call and one classification
\* call, both outstanding together; when it fails it issues neither and the
\* request fails.
C7_OneIdentityThenPair ==
    \A r \in Req :
        (rq[r].kind = "verify" /\ ~rq[r].entryAtStart /\ rq[r].pc = "done")
            => /\ rq[r].idCalls = 1
               /\ rq[r].dot # ""
                    => /\ rq[r].authCalls = 1
                       /\ rq[r].classCalls = 1
                       /\ rq[r].bothOutstanding
               /\ rq[r].dot = ""
                    => /\ rq[r].authCalls = 0
                       /\ rq[r].classCalls = 0
                       /\ rq[r].outcome = "error"

\* a verify-carrier request on a cache miss has completed after its three
\* lookups
C7_Witness ==
    \E r \in Req :
        /\ rq[r].kind = "verify"
        /\ ~rq[r].entryAtStart
        /\ rq[r].pc = "done"
        /\ rq[r].outcome = "ok"
        /\ rq[r].idCalls = 1
        /\ rq[r].bothOutstanding

\* C8: a verify-carrier request that fails because a lookup failed has
\* written nothing to the store, and the step in which it fails leaves the
\* carriers collection as it is.
C8_FailedVerifyWritesNothing ==
    [][\A r \in Req :
          (rq[r].kind = "verify" /\ rq'[r].kind = "verify"
                                 /\ rq'[r].outcome = "error")
              => /\ rq'[r].writes = 0
                 /\ rq'[r].pc = "done"
                 /\ (rq[r].outcome = "none" => file'.carriers = file.carriers)]_vars

\* a verify-carrier request has failed after the identity lookup succeeded
C8_Witness ==
    \E r \in Req :
        /\ rq[r].kind = "verify"
        /\ rq[r].outcome = "error"
        /\ rq[r].authCalls = 1

\* a profile as verifyCarrier assembles it from the three lookups for that
\* carrier (the cargo set is not part of it)
AssembledByVerify(c) ==
    /\ c.mc_number \in MCNumbers
    /\ LET d == DocketRegistry(c.mc_number)
           a == AuthorityRegistry(d.dotNumber)
       IN  /\ c.dot_number = d.dotNumber
           /\ c.legal_name = d.legalName
           /\ c.status_code = d.statusCode
           /\ c.allowed_to_operate = (IF d.allowedToOperate = "" THEN "N" ELSE d.allowedToOperate)
           /\ c.bipd_on_file = (IF d.bipdInsuranceOnFile = "" THEN "0" ELSE d.bipdInsuranceOnFile)
           /\ c.bipd_required = (IF d.bipdRequiredAmount = "" THEN "0" ELSE d.bipdRequiredAmount)
           /\ c.common_authority_status = (IF a = << >> THEN "" ELSE a[1].commonAuthorityStatus)
           /\ c.contract_authority_status = (IF a = << >> THEN "" ELSE a[1].contractAuthorityStatus)
           /\ c.authorized_for_property = (IF a = << >> THEN "N" ELSE a[1].authorizedForProperty)
           /\ c.operation_classification = ClassificationRegistry(d.dotNumber)

\* the placeholder assignLoad stores for a carrier it found no entry for
PlaceholderFromAssign(c) ==
    /\ c.mc_number \in MCNumbers
    /\ c.dot_number = DocketRegistry(c.mc_number).dotNumber
    /\ c.legal_name = ""
    /\ c.status_code = "A"
    /\ c.allowed_to_operate = "Y"
    /\ c.common_authority_status = "A"
    /\ c.contract_authority_status = "A"
    /\ c.authorized_for_property = "Y"
    /\ c.operation_classification = << >>
    /\ c.bipd_on_file = ""
    /\ c.bipd_required = ""
    /\ c.cargo_known
    /\ c.cargo_carried = CargoRegistry(c.dot_number)

\* C9 as stated: every entry of the carriers collection was assembled by a
\* successful verification from the identity, authority and classification
\* lookups of that carrier.
C9_OnlyVerifiedEntries ==
    \A i \in DOMAIN file.carriers : AssembledByVerify(file.carriers[i])

\* C9 amended: every entry is either such a verified profile (its cargo set
\* possibly refreshed by assign-load) or the placeholder an assign-load
\* request stored for a carrier without an entry, after its identity and
\* cargo lookups; there is at most one entry per carrier number.
C9_VerifiedOrPlaceholder ==
    /\ \A i \in DOMAIN file.carriers :
           \/ AssembledByVerify(file.carriers[i])
           \/ PlaceholderFromAssign(file.carriers[i])
    /\ \A i, j \in DOMAIN file.carriers :
           file.carriers[i].mc_number = file.carriers[j].mc_number => i = j

\* an assign-load request for a carrier without a cache entry has stored its
\* placeholder
C9_Witness ==
    \E r \in Req, i \in DOMAIN file.carriers :
        /\ rq[r].kind = "assign"
        /\ ~rq[r].entryAtStart
        /\ rq[r].writes >= 1
        /\ file.carriers[i].mc_number = rq[r].mc
        /\ PlaceholderFromAssign(file.carriers[i])

C11_WriteStampsCachedAt ==
    [][\A r \in Req :
          (rq[r].pc = "cache_write" /\ rq'[r].writes = rq[r].writes + 1)
              => LET old == findByMC(file, rq[r].mc)
                     new == findByMC(file', rq[r].mc)
                 IN  /\ new.mc_number = rq[r].mc
                     /\ old.mc_number # "" => new.cached_at >= old.cached_at
                     /\ (old.mc_number # "" /\ old.cached_at < now)
                            => new.cached_at > old.cached_at]_vars

\* C12: a cached profile is valid iff now - cached_at is strictly less than
\* the TTL of 24 hours; a verify-carrier request that finds an entry younger
\* than the TTL issues no lookup, and one that finds an entry whose age is the
\* TTL or more treats it as a miss and goes to the identity lookup.
C12_ValidIffYoungerThanTTL ==
    /\ \A i \in DOMAIN file.carriers :
           isCacheValid(file.carriers[i], now) <=> (now - file.carriers[i].cached_at < 24)
    /\ \A r \in Req :
           (rq[r].kind = "verify" /\ rq[r].entryAtStart)
               => IF rq[r].freshAtStart
                  THEN rq[r].pc = "done" /\ rq[r].idCalls = 0
                  ELSE rq[r].pc = "v_docket" \/ rq[r].idCalls = 1

\* a verify-carrier request found an entry exactly 24 hours old and has gone
\* to the lookups
C12_Witness ==
    \E r \in Req, i \in DOMAIN file.carriers :
        /\ rq[r].kind = "verify"
        /\ rq[r].entryAtStart
        /\ ~rq[r].freshAtStart
        /\ rq[r].idCalls = 1
        /\ rq[r].pc = "v_await"
        /\ file.carriers[i].mc_number = rq[r].mc
        /\ now - file.carriers[i].cached_at = 24

\* C13: cacheCarrier is an upsert keyed by carrier number: the document it
\* writes has exactly one entry with the profile's carrier number, that entry
\* is the profile as passed in (nothing of a previous entry is carried over),
\* and the entries of the other carriers are those of the document it read.
C13_CacheCarrierUpserts ==
    [][\A r \in Req :
          (rq[r].pc = "cache_write" /\ rq'[r].writes = rq[r].writes + 1)
              => LET p == rq[r].carrier
                     before == rq[r].snap.carriers
                     after == file'.carriers
                 IN  /\ Cardinality({i \in DOMAIN after :
                                        after[i].mc_number = p.mc_number}) = 1
                     /\ \A i \in DOMAIN after :
                            after[i].mc_number = p.mc_number => after[i] = p
                     /\ FilterSeq(after, {c \in Range(after) : c.mc_number # p.mc_number})
                          = FilterSeq(before, {c \in Range(before) : c.mc_number # p.mc_number})
                     /\ Len(after) = Len(before) +
                            (IF \E c \in Range(before) : c.mc_number = p.mc_number
                             THEN 0 ELSE 1)]_vars

\* a verify-carrier request has replaced the existing entry of its carrier
\* while the store also holds the entry of another carrier
C13_Witness ==
    \E r \in Req :
        /\ rq[r].kind = "verify"
        /\ rq[r].entryAtStart
        /\ rq[r].writes = 1
        /\ rq[r].pc = "done"
        /\ Len(file.carriers) = 2
        /\ \E i \in DOMAIN file.carriers :
               /\ file.carriers[i].mc_number = rq[r].mc
               /\ ~file.carriers[i].cargo_known

\* a findBestMatch call that has returned
Matched == calc.fn = "findBestMatch" /\ calc.pc = "returned"

\* the carrier of the call has a non-empty cargo set
HasCargoSet == calc.carrier.cargo_known /\ calc.carrier.cargo_carried # {}

\* the positions of the input list whose load is available
AvailableAt == {i \in DOMAIN calc.loads : calc.loads[i].status \in {"available", ""}}

\* C14: findBestMatch never selects a load whose cargo code is absent from a
\* non-empty carrier cargo set (no such load is even a candidate); when the
\* carrier's cargo set is empty or unknown, every available load of the
\* input is a candidate.
C14_CargoFilter ==
    Matched =>
        /\ HasCargoSet =>
               /\ \A i \in DOMAIN calc.candidates :
                      calc.candidates[i].commodity_type \in calc.carrier.cargo_carried
               /\ calc.result.found =>
                      \E i \in DOMAIN calc.loads :
                          /\ calc.loads[i].load_id = calc.result.load_id
                          /\ calc.loads[i].commodity_type \in calc.carrier.cargo_carried
        /\ ~HasCargoSet =>
               /\ Len(calc.candidates) = Cardinality(AvailableAt)
               /\ \A i \in AvailableAt :
                      \E j \in DOMAIN calc.candidates : calc.candidates[j] = calc.loads[i]

\* the carrier hauls cargo 1 only; of two available loads the one with cargo
\* 2 comes first in the list and the one with cargo 1 has been selected
C14_Witness ==
    /\ Matched
    /\ calc.carrier.cargo_carried = {1}
    /\ Len(calc.loads) = 2
    /\ calc.loads[1].commodity_type = 2
    /\ calc.loads[1].status = "available"
    /\ calc.loads[2].commodity_type = 1
    /\ calc.result.found
    /\ calc.result.load_id = calc.loads[2].load_id

\* the loads of the input that pass the availability and cargo filters
PassFilters ==
    {l \in Range(calc.loads) :
        /\ l.status \in {"available", ""}
        /\ ~HasCargoSet \/ l.commodity_type \in calc.carrier.cargo_carried}

C18_MalformedLocationRaises ==
    (Matched /\ parseLocation(calc.currentLocation).thrown
             /\ calc.candidates # << >>) =>
        /\ calc.error # ""
        /\ ~calc.result.found

\* a checkTimelineFeasibility call that has returned
Checked == calc.fn = "checkTimelineFeasibility" /\ calc.pc = "returned"

\* C19 as stated: for all inputs, whether or not both locations resolve to
\* coordinates, the result has isFeasible = true exactly when its bufferHours
\* is 2.0 or more (bufferHours is in units of 1/550 hour).
C19_FeasibleIffBufferTwoHours ==
    Checked =>
        (calc.result.isFeasible
            <=> calc.result.bufferHours >= 2 * AVERAGE_TRUCK_SPEED_MPH * 10)

\* C19 amended: when both locations resolve, isFeasible is true exactly when
\* bufferHours = hoursAvailable - hoursNeeded is 2.0 or more; when one of them
\* does not resolve, bufferHours is hoursAvailable and isFeasible is true
\* exactly when hoursAvailable is greater than 0.
C19_BufferRuleWhenResolved ==
    Checked =>
        LET res == calc.result
            resolved == /\ getCoordinates(calc.carrierLocation).found
                        /\ getCoordinates(calc.pickupLocation).found
            hoursAvailable == calc.pickupDateTime - calc.carrierAvailableDate
        IN  /\ res.hoursAvailable = hoursAvailable
            /\ res.hasDistance = resolved
            /\ resolved =>
                   /\ res.bufferHours = hoursAvailable * AVERAGE_TRUCK_SPEED_MPH * 10
                                            - res.distanceInMiles * 12
                   /\ res.isFeasible
                        <=> res.bufferHours >= 2 * AVERAGE_TRUCK_SPEED_MPH * 10
            /\ ~resolved =>
                   /\ res.bufferHours = hoursAvailable * AVERAGE_TRUCK_SPEED_MPH * 10
                   /\ res.isFeasible <=> hoursAvailable > 0

\* the pickup location does not resolve and the pickup is one hour away: the
\* result is feasible with a buffer of one hour
C19_Witness ==
    /\ Checked
    /\ calc.pickupLocation = "Nowhere, ZZ"
    /\ ~calc.result.hasDistance
    /\ calc.result.hoursAvailable = 1
    /\ calc.result.bufferHours = AVERAGE_TRUCK_SPEED_MPH * 10
    /\ calc.result.isFeasible

\* a calculateProximityScore call pair that has returned
Scored == calc.fn = "calculateProximityScore" /\ calc.pc = "returned"

\* C20: calculateProximityScore does not increase with distance (d <= e
\* implies score(d) >= score(e), across the segment boundaries at 50, 150,
\* 300 and 500 miles too) and is exactly 1.0 (ScoreUnit) at distance 0.
C20_ProximityNonIncreasing ==
    Scored =>
        /\ calc.distanceInMiles <= calc.fartherMiles => calc.score >= calc.fartherScore
        /\ calc.distanceInMiles = 0 => calc.score = ScoreUnit
        /\ calc.score <= ScoreUnit /\ calc.score > 0

\* the scores at 150 and 151 miles, on the two sides of a segment boundary
C20_Witness ==
    /\ Scored
    /\ calc.distanceInMiles = 150
    /\ calc.fartherMiles = 151
    /\ calc.score > calc.fartherScore

\* C21: the response of a verify-carrier request carries the four flags of
\* the profile the request used (the cached entry on a hit, the assembled
\* profile on a miss): status code active, allowed to operate, common or
\* contract authority active, insurance on file numerically >= required; and
\* eligible is true exactly when all four are.
C21_EligibleIffAllFour ==
    [][\A r \in Req :
          (rq[r].outcome = "none" /\ rq'[r].kind = "verify" /\ rq'[r].outcome = "ok")
              => LET p == IF rq[r].pc = "cache_write" THEN rq[r].carrier
                          ELSE findByMC(file, rq'[r].mc)
                     onFile == parseFloat(p.bipd_on_file)
                     required == parseFloat(p.bipd_required)
                     body == rq'[r].resp
                 IN  /\ body.sent
                     /\ body.mc_number = rq'[r].mc
                     /\ body.is_active <=> p.status_code = "A"
                     /\ body.allowed_to_operate <=> p.allowed_to_operate = "Y"
                     /\ body.has_authority <=>
                            "A" \in {p.common_authority_status, p.contract_authority_status}
                     /\ body.insurance_compliant <=>
                            (~onFile.nan /\ ~required.nan /\ onFile.value >= required.value)
                     /\ body.eligible <=>
                            (body.is_active /\ body.allowed_to_operate
                                /\ body.has_authority /\ body.insurance_compliant)]_vars

\* a verify-carrier request answered from the placeholder entry an assign-load
\* request had stored: active, allowed and authorised, but with no insurance
\* figures, hence not eligible
C21_Witness ==
    \E r \in Req :
        /\ rq[r].kind = "verify"
        /\ rq[r].outcome = "ok"
        /\ rq[r].resp.sent
        /\ rq[r].resp.is_active
        /\ rq[r].resp.allowed_to_operate
        /\ rq[r].resp.has_authority
        /\ ~rq[r].resp.insurance_compliant
        /\ ~rq[r].resp.eligible

\* the carrier numbers of McTexts that are 1-7 decimal digits once the
\* optional MC prefix is stripped
WellFormedMcTexts == {<<"M", "C", "-", "1", "0", "0">>, <<"2", "0", "0">>}

\* the request in the middleware has a malformed carrier number or, on
\* assign-load, a location text that is not "City, State"
MalformedRequest ==
    \/ calc.mc_number \notin WellFormedMcTexts
    \/ calc.route = "assign-load" /\ calc.current_location # "Chicago, IL"

C30_KeyWriteTouchesOnlyApiKeys ==
    [][(InMiddleware("writeFile") /\ calc' # calc)
          => /\ file'.loads = file.loads
             /\ file'.carriers = file.carriers
             /\ file'.assignments = file.assignments]_vars

\* C23: within one verify-carrier request on a cache miss the events come in
\* this order: the authority and classification lookups are issued only once
\* the identity lookup has completed; the profile is assembled only once both
\* of them have returned; the cache write is made only with an assembled
\* profile; the response is produced only after the cache write.
C23_LookupsAssemblyWriteResponse ==
    [][\A r \in Req :
          (rq'[r].kind = "verify" /\ ~rq'[r].freshAtStart) =>
              /\ (rq'[r].authCalls > rq[r].authCalls \/ rq'[r].classCalls > rq[r].classCalls)
                     => /\ rq[r].pc = "v_docket"
                        /\ rq'[r].idCalls = 1
                        /\ rq'[r].dot # ""
              /\ (rq[r].carrier = NoCarrier /\ rq'[r].carrier # NoCarrier)
                     => /\ rq[r].authCalls = 1 /\ rq[r].classCalls = 1
                        /\ rq'[r].returned = {"authority", "classification"}
                        /\ rq'[r].outstanding = {}
                        /\ rq'[r].writes = 0
              /\ rq'[r].writes > rq[r].writes
                     => /\ rq[r].pc = "cache_write"
                        /\ rq[r].carrier # NoCarrier
                        /\ rq[r].carrier.mc_number = rq[r].mc
              /\ (rq[r].outcome = "none" /\ rq'[r].outcome = "ok")
                     => /\ rq'[r].writes = 1
                        /\ rq'[r].resp.sent
                        /\ \E i \in DOMAIN file'.carriers :
                               file'.carriers[i].mc_number = rq'[r].mc]_vars

\* a verify-carrier request that found a stale entry has gone through the
\* three lookups and the cache write and has answered
C23_Witness ==
    \E r \in Req :
        /\ rq[r].kind = "verify"
        /\ rq[r].entryAtStart
        /\ ~rq[r].freshAtStart
        /\ rq[r].idCalls = 1 /\ rq[r].authCalls = 1 /\ rq[r].classCalls = 1
        /\ rq[r].writes = 1
        /\ rq[r].outcome = "ok"
        /\ rq[r].resp.sent

\* C24: the score of every scored load is
\* min(1.0, (cargoMatch ? 0.40 : 0) + 0.35 * proximity + (feasible ? 0.25 : 0)
\*           + min(rate / 10000, 0.10)),
\* where proximity is the proximity score of the distance to the pickup, or
\* 0.5 when that distance could not be computed (scores in units of
\* 1/3000000).
C24_ScoreFormula ==
    Matched =>
        \A i \in DOMAIN calc.candidates :
            LET l == calc.candidates[i]
                miles == DistanceMiles(calc.currentLocation, l.origin)
                hours == l.pickup_datetime - calc.availableDate
                cargoMatch == ~HasCargoSet \/ l.commodity_type \in calc.carrier.cargo_carried
                proximity == IF miles >= 0 THEN calculateProximityScore(miles)
                             ELSE 1500000
                feasible == IF miles >= 0 THEN hours * 550 - miles * 12 >= 1100
                            ELSE hours > 0
                rateBonus == IF l.loadboard_rate * 300 <= 300000
                             THEN l.loadboard_rate * 300 ELSE 300000
                sum == (IF cargoMatch THEN 1200000 ELSE 0) + (proximity * 35) \div 100
                          + (IF feasible THEN 750000 ELSE 0) + rateBonus
            IN  calc.scores[i] = IF sum <= 3000000 THEN sum ELSE 3000000

\* a candidate whose pickup location is not known to the city database: it
\* scores 0.40 + 0.35 * 0.5 + 0.25 with no rate bonus
C24_Witness ==
    /\ Matched
    /\ Len(calc.candidates) >= 1
    /\ calc.candidates[1].origin = "Nowhere, ZZ"
    /\ calc.candidates[1].loadboard_rate = 0
    /\ calc.candidates[1].pickup_datetime > calc.availableDate
    /\ calc.scores[1] = 1200000 + 525000 + 750000

\* C25: a load whose status is 'assigned' is never returned as a match, so
\* once an assign-load request has succeeded for a load, no assign-load
\* request that comes in later is answered with that same load.
C25_AssignedLoadNotReturnedAgain ==
    (InMiddleware("handed") /\ calc.route = "assign-load") =>
        LET q == rq[calc.slot]
        IN  (q.kind = "assign" /\ q.pc = "done" /\ q.outcome = "ok")
                => q.loadId \notin calc.assignedBefore

\* C26: a verify-carrier request changes only the carriers collection: the
\* write it makes in cacheCarrier leaves loads and assignments as they were
\* just before it, also when assignment writes of other requests fall
\* between its read and its write.
C26_VerifyWriteKeepsLoadsAndAssignments ==
    [][\A r \in Req :
          (rq[r].kind = "verify" /\ rq[r].pc = "cache_write" /\ rq'[r].pc = "done")
              => (file'.loads = file.loads /\ file'.assignments = file.assignments)]_vars

\* C27: assignment ids are auto-incrementing: the record a successful
\* createAssignment writes has an id greater than every id the assignments
\* collection of the store holds at that moment.
C27_NewIdAboveEveryStoredId ==
    [][\A r \in Req :
          (rq[r].pc = "asg_write" /\ rq'[r].pc = "done" /\ rq'[r].outcome = "ok")
              => \A i \in DOMAIN file.assignments :
                     file'.assignments[Len(file'.assignments)].assignment_id
                         > file.assignments[i].assignment_id]_vars

\* C28: every verify-carrier request ends with a response or an error, given
\* that each lookup call returns or reaches its timeout; a lookup that fails
\* or times out ends the request with an upstream failure, with nothing
\* written and no response body built from a partial profile.
C28_VerifyEventuallyCompletes ==
    /\ \A r \in Req :
           (rq[r].kind = "verify" /\ rq[r].pc # "done") ~> (rq[r].pc = "done")
    /\ [][\A r \in Req :
             (rq[r].pc \in {"v_docket", "v_await"} /\ rq'[r].pc = "done")
                 => /\ rq'[r].outcome = "error" /\ rq'[r].err = "upstream"
                    /\ rq'[r].writes = 0 /\ ~rq'[r].resp.sent
                    /\ file' = file]_vars

\* a verify-carrier request has ended on a failed or timed-out second-stage
\* lookup
C28_Witness ==
    \E r \in Req :
        /\ rq[r].kind = "verify" /\ rq[r].pc = "done"
        /\ rq[r].err = "upstream" /\ rq[r].authCalls = 1 /\ rq[r].classCalls = 1

\* the candidates of the call whose pickup is not feasible for the carrier
\* (too far for the hours left, or already in the past)
InfeasibleCandidates ==
    {i \in DOMAIN calc.candidates :
        ~checkTimelineFeasibility(calc.currentLocation, calc.candidates[i].origin,
                                  calc.availableDate,
                                  calc.candidates[i].pickup_datetime).isFeasible}

\* C29: with rates that are not negative, every load that passes the
\* availability and cargo filters scores above 0, so findBestMatch returns a
\* load exactly when some load passes the two filters; a candidate whose
\* timeline is infeasible (its pickup may already be past) scores at most
\* 0.85 and below what it would score if feasible, but stays a candidate and
\* is returned when no candidate scores higher.
C29_EveryCandidatePositive ==
    Matched =>
        /\ \A i \in DOMAIN calc.scores : calc.scores[i] > 0
        /\ calc.result.found <=> (PassFilters # {})
        /\ \A i \in InfeasibleCandidates :
               /\ calc.scores[i] <= (ScoreUnit * 85) \div 100
               /\ calc.scores[i] <
                      calculateOverallScore(
                          [calculateMatchFactors(calc.carrier, calc.candidates[i],
                                                 calc.currentLocation, calc.availableDate)
                              EXCEPT !.timeline_feasible = TRUE],
                          calc.candidates[i])
               /\ (\A j \in DOMAIN calc.scores : calc.scores[j] <= calc.scores[i])
                      => calc.result.found

\* the only candidate has its pickup before the carrier is available, at a
\* rate of 0, and is the load returned
C29_Witness ==
    /\ Matched
    /\ calc.availableDate = 12
    /\ Len(calc.candidates) = 1
    /\ calc.candidates[1].pickup_datetime = 1
    /\ calc.candidates[1].loadboard_rate = 0
    /\ InfeasibleCandidates = {1}
    /\ calc.result.found
    /\ calc.result.load_id = calc.candidates[1].load_id

====
